---------------------------- MODULE Spec2Model ----------------------------
(***************************************************************************)
(* Bot-in-a-box setup script (biab/start.py): one run of main().           *)
(*                                                                         *)
(* The script is a sequential pipeline of blocking calls to gcloud, the    *)
(* Firebase REST API and the Firebase admin SDK.  The state is main's      *)
(* position (pc), its local variables, the two files on disk, and the      *)
(* record of the external calls made so far.  What an external call        *)
(* answers (exit status, stderr, HTTP body, user input) is chosen          *)
(* nondeterministically from small sets.                                   *)
(***************************************************************************)
EXTENDS Naturals, Sequences, FiniteSets

VARIABLES
    pc,              \* position of the run in main and its callees
    error,           \* the uncaught exception that ended the run ("" if none)
    failed_at,       \* the function that raised it ("" if none)
    started,         \* main's steps that have started, in order
    completed,       \* main's steps that have returned normally, in order
    project_id,      \* main: project_id
    partner_key,     \* main: partner_key
    describe_out,    \* set_region: exit status and stderr of `gcloud app describe`
    listed,          \* set_region: number of `gcloud app regions list` calls
    regions_list,    \* set_region: regions_list
    deploy_region,   \* set_region: deploy_region
    region_prompts,  \* set_region: whether the region prompt was shown
    apps_created,    \* regions passed to `gcloud app create`, in order
    apis_enabled,    \* APIs passed to `gcloud services enable`, in order
    attempted,       \* get_service_key: gcloud sub-commands run, in order
    logged,          \* get_service_key: messages printed by its except blocks
    cred_file,       \* ../resources/generated_firebase_credentials.json
    posts,           \* number of POSTs to the addFirebase endpoint
    response,        \* initialize_firebase: request (the POST's JSON body)
    poll_log,        \* results of request.execute() in wait_for_operation
    sleeps,          \* number of sleep(1) calls in wait_for_operation
    db_setup,        \* realtime database content at setup/
    sentinel_writes, \* number of ref.set({'completed': True}) calls
    config_file,     \* ../resources/config.json
    config_before,   \* ../resources/config.json as the run found it
    config_writes,   \* number of times create_config wrote the file
    deploy_log,      \* deploy: deploy_log (stderr of `gcloud app deploy`)
    deploys,         \* number of `gcloud app deploy` calls
    deployed_url,    \* main: deployed_url
    summary          \* the links main prints at the end

ctlVars    == <<pc, error, failed_at, started, completed>>
mainVars   == <<project_id, partner_key>>
regionVars == <<describe_out, listed, regions_list, deploy_region,
                region_prompts, apps_created>>
apiVars    == <<apis_enabled>>
saVars     == <<attempted, logged, cred_file>>
fbVars     == <<posts, response, poll_log, sleeps, db_setup, sentinel_writes>>
cfgVars    == <<config_file, config_before, config_writes>>
depVars    == <<deploy_log, deploys, deployed_url, summary>>
vars       == <<ctlVars, mainVars, regionVars, apiVars, saVars, fbVars,
                cfgVars, depVars>>

---------------------------------------------------------------------------
(* Module-level constants of start.py *)

FIREBASE_CREDENTIALS_FILE_NAME == "generated_firebase_credentials.json"

\* initialize_firebase: the error code that means "already exists"
HTTP_CONFLICT == 409

\* enable_apis: apis_to_enable
apis_to_enable ==
    << "iam.googleapis.com", "dialogflow.googleapis.com",
       "firebase.googleapis.com", "cloudbuild.googleapis.com",
       "businessmessages.googleapis.com",
       "businesscommunications.googleapis.com" >>

---------------------------------------------------------------------------
(* Bounds and input domains *)

\* wait_for_operation polls without limit; the model stops a run that has
\* polled MaxPolls times without a terminal result.
MaxPolls == 3

\* What the user may type at a prompt; "" is an empty line.
ProjectInputs == {"", "proj-a", "proj-b"}

KeyInputs == {"", "key-1", "key-2"}

RegionInputs == {"", "us-central", "europe-west", "mars-1"}

\* Exit status and stderr of `gcloud app describe`: the app exists; the app
\* exists and gcloud also writes a warning to stderr, as it does for any
\* command; there is no app.
DescribeOutcomes ==
    { [rc |-> 0, err |-> ""],
      [rc |-> 0, err |-> "WARNING: updates are available for some components"],
      [rc |-> 1, err |-> "ERROR: (gcloud.app.describe) does not contain an App Engine application"] }

\* stdout of `gcloud app regions list`: a header line, one line per region
\* (columns separated by blanks), and the text after the last newline.
RegionListings ==
    { << <<"REGION", "SUPPORTS_STANDARD", "SUPPORTS_FLEXIBLE">>,
         <<"us-central", "YES", "YES">>,
         <<"europe-west", "YES", "NO">>,
         << >> >>,
      << <<"REGION", "SUPPORTS_STANDARD", "SUPPORTS_FLEXIBLE">>,
         <<"europe-west", "YES", "NO">>,
         << >> >>,
      << <<"REGION", "SUPPORTS_STANDARD", "SUPPORTS_FLEXIBLE">>,
         << >> >> }

\* State of the credentials key file left by an earlier run.
CredFileStates == {"missing", "valid", "malformed"}

\* JSON body answered by the addFirebase endpoint.  A Google API error
\* object always carries a code.
AddResponses == [has_error : BOOLEAN, code : {HTTP_CONFLICT, 403},
                 has_name : BOOLEAN]

\* JSON body answered by operations.get.
PollResults == [has_error : BOOLEAN, done : {"absent", "false", "true"}]

\* ../resources/config.json as a set of <<key, JSON value>> members; {} is
\* "no such file".
OldConfigFiles ==
    { {},
      { <<"verification_token", "\"old-key\"">>,
        <<"use_firebase_for_credentials", "false">>,
        <<"legacy_setting", "\"x\"">> } }

\* stderr of `gcloud app deploy`, one record per line: the text up to and
\* including the first "[" that follows "to ", the text between the
\* brackets, and the rest of the line.
DeployLogs ==
    { << [pre |-> "Updating service [default]...", body |-> "", post |-> ""],
         [pre |-> "Deployed service [default] to [",
          body |-> "https://example.appspot.com", post |-> "]"] >>,
      << [pre |-> "Deployed service [default] to [",
          body |-> "https://proj-a.uc.r.appspot.com", post |-> "]"],
         [pre |-> "You can stream logs from the command line", body |-> "",
          post |-> ""] >>,
      << [pre |-> "ERROR: (gcloud.app.deploy) permission denied",
          body |-> "", post |-> ""] >>,
      << [pre |-> "Deployed service [default] to [", body |-> "",
          post |-> "]"] >>,
      << >> }

---------------------------------------------------------------------------
(* Control flow of main *)

\* Mutant of After: main calls create_config before initialize_firebase.
After_ConfigFirst(step) ==
    CASE step = "set_project"         -> "describe_app"
      [] step = "set_region"          -> "enable_api"
      [] step = "enable_apis"         -> "sa_create"
      [] step = "get_service_key"     -> "create_config"
      [] step = "create_config"       -> "get_token"
      [] step = "initialize_firebase" -> "deploy"
      [] step = "deploy"              -> "summary"
      [] step = "summary"             -> "done"

\* The position at which main continues after a step has returned.
After(step) ==
    CASE step = "set_project"         -> "describe_app"
      [] step = "set_region"          -> "enable_api"
      [] step = "enable_apis"         -> "sa_create"
      [] step = "get_service_key"     -> "get_token"
      [] step = "initialize_firebase" -> "create_config"
      [] step = "create_config"       -> "deploy"
      [] step = "deploy"              -> "summary"
      [] step = "summary"             -> "done"

\* A step begins: main calls it.
Start(step) == started' = Append(started, step)

\* A step returns normally and main goes on to its next statement.
Return(step) ==
    /\ pc' = After(step)
    /\ completed' = Append(completed, step)
    /\ UNCHANGED <<error, failed_at>>

\* An exception nobody catches propagates out of main: the run ends.
Raise(fn, exc) ==
    /\ pc' = "failed"
    /\ error' = exc
    /\ failed_at' = fn
    /\ UNCHANGED completed

\* Stay inside the current step.
Goto(p) ==
    /\ pc' = p
    /\ UNCHANGED <<error, failed_at, completed>>

---------------------------------------------------------------------------

Init ==
    /\ pc = "prompt_project"
    /\ error = ""
    /\ failed_at = ""
    /\ started = << >>
    /\ completed = << >>
    /\ project_id = ""
    /\ partner_key = ""
    /\ describe_out = [rc |-> 0, err |-> ""]
    /\ listed = 0
    /\ regions_list = << >>
    /\ deploy_region = ""
    /\ region_prompts = FALSE
    /\ apps_created = << >>
    /\ apis_enabled = << >>
    /\ attempted = << >>
    /\ logged = << >>
    /\ cred_file \in CredFileStates
    /\ posts = 0
    /\ response = [has_error |-> FALSE, code |-> HTTP_CONFLICT,
                   has_name |-> FALSE]
    /\ poll_log = << >>
    /\ sleeps = 0
    /\ db_setup = "absent"
    /\ sentinel_writes = 0
    /\ config_file \in OldConfigFiles
    /\ config_before = config_file
    /\ config_writes = 0
    /\ deploy_log = << >>
    /\ deploys = 0
    /\ deployed_url = ""
    /\ summary = << >>

---------------------------------------------------------------------------
(* main: the two prompts and the active project *)

\* while not project_id: project_id = input(...)
PromptProject ==
    /\ pc = "prompt_project"
    /\ \E typed \in ProjectInputs :
         /\ project_id' = typed
         /\ pc' = IF typed = "" THEN "prompt_project" ELSE "prompt_key"
    /\ UNCHANGED <<error, failed_at, started, completed, partner_key,
                   regionVars, apiVars, saVars, fbVars, cfgVars, depVars>>

\* while not partner_key: partner_key = input(...)
PromptKey ==
    /\ pc = "prompt_key"
    /\ \E typed \in KeyInputs :
         /\ partner_key' = typed
         /\ pc' = IF typed = "" THEN "prompt_key" ELSE "set_project"
    /\ UNCHANGED <<error, failed_at, started, completed, project_id,
                   regionVars, apiVars, saVars, fbVars, cfgVars, depVars>>

\* subprocess.run(['gcloud', 'config', 'set', 'project', project_id], check=True)
SetProject ==
    /\ pc = "set_project"
    /\ Start("set_project")
    /\ \E ok \in BOOLEAN :
         IF ok THEN Return("set_project")
               ELSE Raise("main", "CalledProcessError")
    /\ UNCHANGED <<mainVars, regionVars, apiVars, saVars, fbVars, cfgVars,
                   depVars>>

---------------------------------------------------------------------------
(* set_region *)

\* regions = out.decode('utf-8').split('\n')[1:-1]
\* regions_list = list(map(lambda x: x.split()[0], regions))
ParseRegions(out) ==
    IF Len(out) < 3 THEN << >>
    ELSE [i \in 1..(Len(out) - 2) |-> out[i + 1][1]]

InList(x, list) == \E i \in 1..Len(list) : list[i] = x

\* proc = Popen('gcloud app describe'); out, err = proc.communicate(); if err:
DescribeApp ==
    /\ pc = "describe_app"
    /\ Start("set_region")
    /\ \E d \in DescribeOutcomes :
         /\ describe_out' = d
         /\ IF d.err # "" THEN Goto("list_regions")
                          ELSE Return("set_region")
    /\ UNCHANGED <<mainVars, listed, regions_list, deploy_region,
                   region_prompts, apps_created, apiVars, saVars, fbVars,
                   cfgVars, depVars>>

\* Popen('gcloud app regions list'), parse and print the regions,
\* deploy_region = ''
ListRegions ==
    /\ pc = "list_regions"
    /\ \E out \in RegionListings : regions_list' = ParseRegions(out)
    /\ listed' = listed + 1
    /\ deploy_region' = ""
    /\ Goto("prompt_region")
    /\ UNCHANGED <<started, mainVars, describe_out, region_prompts,
                   apps_created, apiVars, saVars, fbVars, cfgVars, depVars>>

\* One turn of: while deploy_region not in regions_list: deploy_region = input(...)
PromptRegion ==
    /\ pc = "prompt_region"
    /\ ~InList(deploy_region, regions_list)
    /\ \E typed \in RegionInputs : deploy_region' = typed
    /\ region_prompts' = TRUE
    /\ Goto("prompt_region")
    /\ UNCHANGED <<started, mainVars, describe_out, listed, regions_list,
                   apps_created, apiVars, saVars, fbVars, cfgVars, depVars>>

\* The loop ends; subprocess.run(['gcloud', 'app', 'create',
\* f'--region={deploy_region}'], check=True)
CreateApp ==
    /\ pc = "prompt_region"
    /\ InList(deploy_region, regions_list)
    /\ apps_created' = Append(apps_created, deploy_region)
    /\ \E ok \in BOOLEAN :
         IF ok THEN Return("set_region")
               ELSE Raise("set_region", "CalledProcessError")
    /\ UNCHANGED <<started, mainVars, describe_out, listed, regions_list,
                   deploy_region, region_prompts, apiVars, saVars, fbVars,
                   cfgVars, depVars>>

---------------------------------------------------------------------------
(* enable_apis *)

\* One turn of: for api in apis_to_enable:
\*     subprocess.run(['gcloud', 'services', 'enable', api], check=True)
EnableApi ==
    /\ pc = "enable_api"
    /\ LET i == Len(apis_enabled) + 1 IN
         /\ started' = IF i = 1 THEN Append(started, "enable_apis")
                                ELSE started
         /\ \E ok \in BOOLEAN :
              IF ok
              THEN /\ apis_enabled' = Append(apis_enabled, apis_to_enable[i])
                   /\ IF i = Len(apis_to_enable) THEN Return("enable_apis")
                                                 ELSE Goto("enable_api")
              ELSE /\ UNCHANGED apis_enabled
                   /\ Raise("enable_apis", "CalledProcessError")
    /\ UNCHANGED <<mainVars, regionVars, saVars, fbVars, cfgVars, depVars>>

---------------------------------------------------------------------------
(* get_service_key *)

MsgAccount ==
    "Service account already exists or unable to create service account. Continuing..."

MsgRole == "Failed to add editor roles to service account. Continuing..."

\* First statement of the first try block:
\* gcloud iam service-accounts create SERVICE_ACCOUNT_NAME, check=True
SaCreate ==
    /\ pc = "sa_create"
    /\ Start("get_service_key")
    /\ attempted' = Append(attempted, "create")
    /\ \E ok \in BOOLEAN :
         IF ok THEN /\ Goto("sa_key")
                    /\ UNCHANGED logged
               ELSE \* except CalledProcessError: leaves the try block
                    /\ Goto("sa_bind")
                    /\ logged' = Append(logged, MsgAccount)
    /\ UNCHANGED <<mainVars, regionVars, apiVars, cred_file, fbVars, cfgVars,
                   depVars>>

\* Second statement of the first try block:
\* gcloud iam service-accounts keys create ../resources/<file>, check=True
SaKey ==
    /\ pc = "sa_key"
    /\ attempted' = Append(attempted, "key")
    /\ \E ok \in BOOLEAN :
         IF ok THEN /\ cred_file' = "valid"
                    /\ UNCHANGED logged
               ELSE /\ UNCHANGED cred_file
                    /\ logged' = Append(logged, MsgAccount)
    /\ Goto("sa_bind")
    /\ UNCHANGED <<started, mainVars, regionVars, apiVars, fbVars, cfgVars,
                   depVars>>

\* The second try block:
\* gcloud projects add-iam-policy-binding ... --role=roles/editor, check=True
SaBind ==
    /\ pc = "sa_bind"
    /\ attempted' = Append(attempted, "bind")
    /\ \E ok \in BOOLEAN :
         logged' = IF ok THEN logged ELSE Append(logged, MsgRole)
    /\ Return("get_service_key")
    /\ UNCHANGED <<started, mainVars, regionVars, apiVars, cred_file, fbVars,
                   cfgVars, depVars>>

---------------------------------------------------------------------------
(* initialize_firebase, get_access_token, wait_for_operation *)

\* Mutant of GetAccessToken: a missing key file is not noticed and the run
\* goes on to the POST.
GetAccessToken_NoFileCheck ==
    /\ pc = "get_token"
    /\ Start("initialize_firebase")
    /\ CASE cred_file = "malformed" ->
              Raise("get_access_token", "ValueError")
         [] cred_file \in {"missing", "valid"} -> Goto("add_firebase")
    /\ UNCHANGED <<mainVars, regionVars, apiVars, saVars, fbVars, cfgVars,
                   depVars>>

\* access_token = get_access_token(): Certificate(<file>) reads the key file
GetAccessToken ==
    /\ pc = "get_token"
    /\ Start("initialize_firebase")
    /\ CASE cred_file = "missing" ->
              Raise("get_access_token", "FileNotFoundError")
         [] cred_file = "malformed" ->
              Raise("get_access_token", "ValueError")
         [] cred_file = "valid" -> Goto("add_firebase")
    /\ UNCHANGED <<mainVars, regionVars, apiVars, saVars, fbVars, cfgVars,
                   depVars>>

\* 'error' in request and request['error']['code'] == 409
AlreadyExists(r) == r.has_error /\ r.code = HTTP_CONFLICT

\* Mutant of HasName: any response that is not a 409 is polled.
HasName_Always(r) == TRUE

\* 'name' in request
HasName(r) == r.has_name

\* Mutant of AddFirebase: the operation name is tested before the 409.
AddFirebase_NameFirst ==
    /\ pc = "add_firebase"
    /\ posts' = posts + 1
    /\ \E r \in AddResponses :
         /\ response' = r
         /\ IF HasName(r) THEN Goto("poll")
            ELSE Return("initialize_firebase")
    /\ UNCHANGED <<started, mainVars, regionVars, apiVars, saVars, poll_log,
                   sleeps, db_setup, sentinel_writes, cfgVars, depVars>>

\* req = requests.post(uri, headers=headers); request = req.json(); if/elif
AddFirebase ==
    /\ pc = "add_firebase"
    /\ posts' = posts + 1
    /\ \E r \in AddResponses :
         /\ response' = r
         /\ IF AlreadyExists(r) THEN Return("initialize_firebase")
            ELSE IF HasName(r) THEN Goto("poll")
            ELSE Return("initialize_firebase")
    /\ UNCHANGED <<started, mainVars, regionVars, apiVars, saVars, poll_log,
                   sleeps, db_setup, sentinel_writes, cfgVars, depVars>>

\* 'error' in result
HasError(res) == res.has_error

\* Mutant of IsDone: only the presence of the key is tested.
IsDone_KeyOnly(res) == res.done # "absent"

\* 'done' in result and result['done']
IsDone(res) == res.done = "true"

\* Mutant of PollOperation: done is tested before error.
PollOperation_DoneFirst ==
    /\ pc = "poll"
    /\ Len(poll_log) < MaxPolls
    /\ \E res \in PollResults :
         /\ poll_log' = Append(poll_log, res)
         /\ IF IsDone(res)
            THEN /\ Goto("init_db")
                 /\ UNCHANGED sleeps
            ELSE IF HasError(res)
            THEN /\ Raise("wait_for_operation", "Exception(result['error'])")
                 /\ UNCHANGED sleeps
            ELSE /\ sleeps' = sleeps + 1
                 /\ Goto("poll")
    /\ UNCHANGED <<started, mainVars, regionVars, apiVars, saVars, posts,
                   response, db_setup, sentinel_writes, cfgVars, depVars>>

\* One turn of wait_for_operation's while True: result = request.execute();
\* raise on error, return on done, else sleep(1)
PollOperation ==
    /\ pc = "poll"
    /\ Len(poll_log) < MaxPolls
    /\ \E res \in PollResults :
         /\ poll_log' = Append(poll_log, res)
         /\ IF HasError(res)
            THEN /\ Raise("wait_for_operation", "Exception(result['error'])")
                 /\ UNCHANGED sleeps
            ELSE IF IsDone(res)
            THEN /\ Goto("init_db")
                 /\ UNCHANGED sleeps
            ELSE /\ sleeps' = sleeps + 1
                 /\ Goto("poll")
    /\ UNCHANGED <<started, mainVars, regionVars, apiVars, saVars, posts,
                   response, db_setup, sentinel_writes, cfgVars, depVars>>

\* After wait_for_operation: credentials.Certificate, initialize_app,
\* ref = db.reference('setup/'); ref.set({'completed': True})
WriteSentinel ==
    /\ pc = "init_db"
    /\ \E ok \in BOOLEAN :
         IF ok THEN /\ db_setup' = "{completed: true}"
                    /\ sentinel_writes' = sentinel_writes + 1
                    /\ Return("initialize_firebase")
               ELSE /\ UNCHANGED <<db_setup, sentinel_writes>>
                    /\ Raise("initialize_firebase", "FirebaseError")
    /\ UNCHANGED <<started, mainVars, regionVars, apiVars, saVars, posts,
                   response, poll_log, sleeps, cfgVars, depVars>>

---------------------------------------------------------------------------
(* create_config *)

PyBool(b) == [type |-> "bool", b |-> b]

PyStr(s) == [type |-> "str", s |-> s]

\* firebase_database_url: f'https://{project_id}.firebaseio.com'
DatabaseUrl(pid) == "https://" \o pid \o ".firebaseio.com"

\* The dict create_config builds, as its items in insertion order.
ConfigDict(pid, key) ==
    << <<"use_firebase_for_credentials", PyBool(TRUE)>>,
       <<"firebase_service_account", PyStr(FIREBASE_CREDENTIALS_FILE_NAME)>>,
       <<"verification_token", PyStr(key)>>,
       <<"firebase_database_url", PyStr(DatabaseUrl(pid))>> >>

\* json.dump of one value: a bool as true/false, a str between quotes.
JsonValue(v) ==
    IF v.type = "bool" THEN (IF v.b THEN "true" ELSE "false")
    ELSE "\"" \o v.s \o "\""

\* json.dump(config, file): the members of the JSON object written.
JsonDump(config) ==
    { <<config[i][1], JsonValue(config[i][2])>> : i \in 1..Len(config) }

\* Mutant of WriteFile: the file is opened without truncation and keeps
\* what it held.
WriteFile_Keep(old, text) == old \cup text

\* with open('../resources/config.json', 'w') as file: the file is truncated
\* and holds what is written.
WriteFile(old, text) == text

CreateConfig ==
    /\ pc = "create_config"
    /\ Start("create_config")
    /\ config_file' =
         WriteFile(config_file, JsonDump(ConfigDict(project_id, partner_key)))
    /\ config_writes' = config_writes + 1
    /\ Return("create_config")
    /\ UNCHANGED <<config_before, mainVars, regionVars, apiVars, saVars, fbVars, depVars>>

---------------------------------------------------------------------------
(* deploy and the summary *)

\* A line the pattern r'Deployed service \[default\] to \[(.+)\]' matches:
\* (.+) needs at least one character between the brackets.
LineMatches(line) ==
    /\ line.pre = "Deployed service [default] to ["
    /\ line.body # ""
    /\ line.post = "]"

\* re.search(url_regex, deploy_log): the first match, 0 for None.
Search(log) ==
    IF \E i \in 1..Len(log) : LineMatches(log[i])
    THEN CHOOSE i \in 1..Len(log) :
           /\ LineMatches(log[i])
           /\ \A j \in 1..(i - 1) : ~LineMatches(log[j])
    ELSE 0

\* What `return deploy_url[1]` raises when re.search returned None.
NoMatchError == "TypeError: 'NoneType' object is not subscriptable"

\* Popen('gcloud app deploy --quiet'); deploy_log = err.decode('utf-8');
\* deploy_url = re.search(url_regex, deploy_log); return deploy_url[1]
Deploy ==
    /\ pc = "deploy"
    /\ Start("deploy")
    /\ deploys' = deploys + 1
    /\ \E log \in DeployLogs :
         /\ deploy_log' = log
         /\ IF Search(log) = 0
            THEN /\ Raise("deploy", NoMatchError)
                 /\ UNCHANGED deployed_url
            ELSE /\ deployed_url' = log[Search(log)].body
                 /\ Return("deploy")
    /\ UNCHANGED <<mainVars, regionVars, apiVars, saVars, fbVars, cfgVars,
                   summary>>

\* main's final print: the administration console and the rules links.
PrintSummary ==
    /\ pc = "summary"
    /\ Start("summary")
    /\ summary' =
         << deployed_url \o "/admin",
            "https://console.firebase.google.com/project/" \o project_id
               \o "/database/" \o project_id \o "/rules" >>
    /\ Return("summary")
    /\ UNCHANGED <<mainVars, regionVars, apiVars, saVars, fbVars, cfgVars,
                   deploy_log, deploys, deployed_url>>

---------------------------------------------------------------------------

Next ==
    \/ PromptProject
    \/ PromptKey
    \/ SetProject
    \/ DescribeApp
    \/ ListRegions
    \/ PromptRegion
    \/ CreateApp
    \/ EnableApi
    \/ SaCreate
    \/ SaKey
    \/ SaBind
    \/ GetAccessToken
    \/ AddFirebase
    \/ PollOperation
    \/ WriteSentinel
    \/ CreateConfig
    \/ Deploy
    \/ PrintSummary

Spec == Init /\ [][Next]_vars

---------------------------------------------------------------------------
(* Properties *)

Has(seq, x) == \E i \in 1..Len(seq) : seq[i] = x

\* Positions main can be at once initialize_firebase has returned.
AfterInitializeFirebase == {"create_config", "deploy", "summary", "done"}

\* The run has left initialize_firebase by a normal return, and any later
\* failure is deploy's.
InitializeFirebaseReturned ==
    /\ Has(completed, "initialize_firebase")
    /\ \/ pc \in AfterInitializeFirebase
       \/ pc = "failed" /\ failed_at = "deploy"

\* C1: when the add-database POST answers an error with code 409,
\* initialize_firebase polls the operation resource zero times, writes no
\* sentinel record at setup/, and returns normally so that the run goes on.
C1_Conflict409NoPollNoSentinel ==
    (posts > 0 /\ response.has_error /\ response.code = 409) =>
        /\ poll_log = << >>
        /\ sleeps = 0
        /\ sentinel_writes = 0
        /\ db_setup = "absent"
        /\ InitializeFirebaseReturned

C1_Witness ==
    /\ posts = 1
    /\ response.has_error /\ response.code = 409 /\ response.has_name
    /\ pc = "create_config"

\* A poll result that ends the wait: an error key, or done: true.
C2_Terminal(res) == res.has_error \/ res.done = "true"

\* C2: when the operation first reports done: true on its N-th poll, with no
\* error key before, wait_for_operation makes exactly N polls, sleeps once
\* after each of the N-1 polls before it, and only then returns; the sentinel
\* record is written after the N-th poll and never before it.
C2_ExactlyNPollsThenSentinel ==
    LET n == Len(poll_log)
        returned == pc = "init_db" \/ sentinel_writes > 0
                    \/ (n > 0 /\ Has(completed, "initialize_firebase"))
    IN /\ \A i \in 1..(n - 1) : ~C2_Terminal(poll_log[i])
       /\ n > 0 => sleeps = IF C2_Terminal(poll_log[n]) THEN n - 1 ELSE n
       /\ n = 0 => sleeps = 0
       /\ returned =>
            /\ n >= 1
            /\ poll_log[n].done = "true" /\ ~poll_log[n].has_error
            /\ sleeps = n - 1
       /\ sentinel_writes > 0 =>
            /\ sentinel_writes = 1
            /\ db_setup = "{completed: true}"
       /\ sentinel_writes = 0 => db_setup = "absent"

C2_Witness ==
    /\ sentinel_writes = 1
    /\ Len(poll_log) = 3
    /\ poll_log[1].done = "false"
    /\ poll_log[2].done = "absent"
    /\ sleeps = 2

\* C3: when a poll returns a result with an error key, database
\* initialization aborts at that poll with that error raised to the caller: no
\* further poll, no sentinel record, also when the result carries done: true.
C3_PollErrorAborts ==
    \A i \in 1..Len(poll_log) :
        poll_log[i].has_error =>
            /\ i = Len(poll_log)
            /\ pc = "failed"
            /\ failed_at = "wait_for_operation"
            /\ error = "Exception(result['error'])"
            /\ sentinel_writes = 0
            /\ db_setup = "absent"
            /\ ~Has(completed, "initialize_firebase")

C3_Witness ==
    /\ Len(poll_log) = 2
    /\ poll_log[2].has_error /\ poll_log[2].done = "true"
    /\ pc = "failed"

C4_Order ==
    << "set_project", "set_region", "enable_apis", "get_service_key",
       "initialize_firebase", "create_config", "deploy", "summary" >>

C4_IsPrefix(seq) ==
    /\ Len(seq) <= Len(C4_Order)
    /\ \A i \in 1..Len(seq) : seq[i] = C4_Order[i]

C4_State ==
    /\ C4_IsPrefix(started)
    /\ C4_IsPrefix(completed)
    /\ Len(completed) <= Len(started)
    /\ Len(started) <= Len(completed) + 1
    /\ started # << >> => project_id # "" /\ partner_key # ""
    /\ pc = "failed" => Len(started) = Len(completed) + 1
    /\ pc = "done" => completed = C4_Order

C4_Step ==
    started' # started =>
        /\ pc # "failed"
        /\ completed = started
        /\ Len(started) < Len(C4_Order)
        /\ started' = Append(started, C4_Order[Len(started) + 1])

\* C4: main's steps start in the order set the project, set_region,
\* enable_apis, get_service_key, initialize_firebase, create_config, deploy,
\* summary; a step starts only after the one before it has returned, and after
\* an uncaught error no later step starts.
C4_PipelineOrder == [] C4_State /\ [][C4_Step]_vars

C4_Witness == pc = "done" /\ started = C4_Order /\ sentinel_writes = 1

\* C5: get_service_key attempts create, key mint and role binding, in that
\* order, whichever of them fails, and always returns normally.
C5_AllThreeAttempted ==
    /\ failed_at # "get_service_key"
    /\ Has(completed, "get_service_key") =>
           attempted = <<"create", "key", "bind">>

\* C6: if the key file does not exist when database initialization starts,
\* the run fails at access-token retrieval with an uncaught error: no POST, no
\* poll, no sentinel record, no configuration file written, no deployment.
C6_MissingKeyFileFailsFirst ==
    (Has(started, "initialize_firebase") /\ cred_file = "missing") =>
        /\ pc = "failed"
        /\ failed_at = "get_access_token"
        /\ error = "FileNotFoundError"
        /\ posts = 0
        /\ poll_log = << >>
        /\ sentinel_writes = 0
        /\ config_writes = 0
        /\ config_file = config_before
        /\ deploys = 0
        /\ summary = << >>

C6_Witness ==
    /\ cred_file = "missing"
    /\ attempted = <<"create", "key", "bind">>
    /\ pc = "failed"
    /\ failed_at = "get_access_token"

\* C7: when deploy's output has no text matching the pattern, deploy fails
\* with an explicit 'URL not found' error and main prints no summary.
C7_ExplicitUrlNotFound ==
    (deploys > 0 /\ ~\E i \in 1..Len(deploy_log) : LineMatches(deploy_log[i]))
        => /\ pc = "failed"
           /\ failed_at = "deploy"
           /\ error = "URL not found"
           /\ summary = << >>

\* C8: in set_region, if the describe-app call succeeds there is no region
\* listing, prompt or app creation; otherwise the regions are listed, the user
\* is prompted until the value typed is a listed region, and the app is created
\* exactly once, with that region: never with a region that is not listed.
C8_RegionSelection ==
    /\ (Has(started, "set_region") /\ describe_out.rc = 0) =>
           /\ listed = 0
           /\ ~region_prompts
           /\ apps_created = << >>
    /\ Len(apps_created) <= 1
    /\ \A i \in 1..Len(apps_created) :
           /\ Has(regions_list, apps_created[i])
           /\ listed = 1
    /\ (Has(completed, "set_region") /\ describe_out.rc # 0) =>
           Len(apps_created) = 1

\* C9: for non-empty project ids and partner keys, once create_config has run
\* the configuration file holds exactly the four keys
\* use_firebase_for_credentials = true, firebase_service_account = the fixed
\* file name, verification_token = the partner key verbatim and
\* firebase_database_url = https://<project id>.firebaseio.com, and nothing of
\* the file it replaced.
C9_ConfigExactlyFourKeys ==
    config_writes > 0 =>
        /\ project_id # "" /\ partner_key # ""
        /\ config_writes = 1
        /\ config_file =
             { <<"use_firebase_for_credentials", "true">>,
               <<"firebase_service_account",
                 "\"generated_firebase_credentials.json\"">>,
               <<"verification_token", "\"" \o partner_key \o "\"">>,
               <<"firebase_database_url",
                 "\"https://" \o project_id \o ".firebaseio.com\"">> }
        /\ Cardinality(config_file) = 4

C9_Witness ==
    /\ config_writes = 1
    /\ config_before # {}
    /\ project_id = "proj-b"
    /\ partner_key = "key-2"

\* C10: when the add-database response is neither a 409 error nor carries an
\* operation name, initialize_firebase does nothing: no poll, no sentinel
\* record, no error, and the run goes on to create_config and deploy; so a
\* sentinel record is written only if the response carried an operation name
\* and a poll reported done: true.
C10_OtherResponseSilentNoOp ==
    /\ ( /\ posts > 0
         /\ ~(response.has_error /\ response.code = 409)
         /\ ~response.has_name ) =>
           /\ poll_log = << >>
           /\ sleeps = 0
           /\ sentinel_writes = 0
           /\ db_setup = "absent"
           /\ InitializeFirebaseReturned
    /\ sentinel_writes > 0 =>
           /\ response.has_name
           /\ \E i \in 1..Len(poll_log) : poll_log[i].done = "true"

C10_Witness ==
    /\ posts = 1
    /\ response.has_error /\ response.code = 403 /\ ~response.has_name
    /\ deploys = 1
    /\ config_writes = 1

=============================================================================
